---- MODULE Spec2Model ----
(***************************************************************************)
(* Model of SphericalShell/build_shell_model.py (the model builder) and    *)
(* SphericalShell/plot_shell_results.py (the result plotter).              *)
(*                                                                         *)
(* Python values are records tagged by a field k.  A call either returns   *)
(* a value, Return(v), or raises, Raise(exc, line).  Floating point values *)
(* are decimal records Num(m, e) = m * 10^e, or Inf (IEEE-754 overflow).   *)
(***************************************************************************)
EXTENDS Integers, Sequences, FiniteSets, TLC

VARIABLES
    call,      \* builder module: name of the function last called
    inp,       \* builder module: the arguments it was called with
    ret,       \* builder module: its outcome, Return(v) or Raise(exc, line)
    fs,        \* result files in the working directory: file name -> statepoint
    run,       \* outcome of the last engine run, or None
    nruns,     \* number of engine runs so far
    pc,        \* plotter: position in plot_shell_results
    sp,        \* plotter: the open StatePoint, or None
    t,         \* plotter: the tally fetched from the statepoint, or None
    energies,  \* plotter: energies returned by extract_flux_spectrum, or None
    flux,      \* plotter: flux returned by extract_flux_spectrum, or None
    fig,       \* plotter: the figure drawn by generate_plot, or None
    written,   \* plotter: image files written by plt.savefig
    shown,     \* plotter: TRUE once plt.show has displayed the figure
    err,       \* plotter: the exception that ended it, or None
    log        \* plotter: the steps completed so far, in order

builderVars == <<call, inp, ret>>
plotVars == <<fs, run, nruns, pc, sp, t, energies, flux, fig, written, shown, err, log>>
vars == <<call, inp, ret, fs, run, nruns, pc, sp, t, energies, flux, fig, written, shown, err, log>>

\* ------------------------------------------------------------ bounds
MaxR == 3          \* largest sphere radius passed to create_geometry
BatchSpread == 1   \* batches passed to setup_problem: the default +- BatchSpread
MaxParticles == 2  \* particles_per_batch values passed to setup_problem
MaxGroups == 1     \* energy groups of the other models the engine is run on
MaxRuns == 2       \* engine runs before the plotter is started

\* ------------------------------------------------------------ Python values
None == [k |-> "None"]
PyInt(n) == [k |-> "int", v |-> n]
\* A str is the sequence of its characters.
PyStr(s) == [k |-> "str", v |-> s]
Num(m, e) == [k |-> "float", m |-> m, e |-> e]
Inf == [k |-> "inf"]

Return(v) == [ok |-> TRUE, val |-> v]
Raise(exc, line) == [ok |-> FALSE, exc |-> exc, line |-> line]

RECURSIVE Pow10(_)
Pow10(n) == IF n <= 0 THEN 1 ELSE 10 * Pow10(n - 1)

RECURSIVE Digits(_)
Digits(n) == IF n < 10 THEN 1 ELSE 1 + Digits(n \div 10)

\* Integer value of a non-negative Python number with integral value.
ToInt(x) == IF x.k = "int" THEN x.v ELSE x.m * Pow10(x.e)

\* Largest n with 10.0**n finite in float64 (max double is about 1.8e308).
MaxExp10 == 308

\* np.power(10.0, y) for an integral y >= 0: overflows to inf above 1e308.
Power10(y) == IF y > MaxExp10 THEN Inf ELSE Num(1, y)

IsFinite(x) == x.k # "inf"

\* Order of magnitude of a positive finite decimal.
Mag(x) == Digits(x.m) + x.e

\* x < y for positive floats (IEEE: inf < inf is false).
Lt(x, y) ==
    IF ~IsFinite(x) THEN FALSE
    ELSE IF ~IsFinite(y) THEN TRUE
    ELSE IF Mag(x) # Mag(y) THEN Mag(x) < Mag(y)
    ELSE IF x.e >= y.e THEN x.m * Pow10(x.e - y.e) < y.m
    ELSE x.m < y.m * Pow10(y.e - x.e)

FloatEq(x, y) ==
    IF ~IsFinite(x) \/ ~IsFinite(y) THEN x.k = y.k
    ELSE ~Lt(x, y) /\ ~Lt(y, x)

IsReal(x) == x.k \in {"int", "float", "inf"}

\* ------------------------------------------------------------ openmc objects
ElementSymbols == {<<"W">>, <<"F", "e">>, <<"P", "b">>}

Material(name, elements, units, density) ==
    [k |-> "Material", name |-> name, elements |-> elements,
     density_units |-> units, density |-> density]

\* openmc.Materials is a list subclass.
Materials(items) == [k |-> "Materials", items |-> items]

\* openmc.Sphere centred at the origin; boundary_type defaults to 'transmission'.
Sphere(r, boundary_type) ==
    [k |-> "Sphere", r |-> r, boundary_type |-> boundary_type]

\* -S and +S of a surface S.
Halfspace(surface, side) == [k |-> "Halfspace", surface |-> surface, side |-> side]

Intersection(nodes) == [k |-> "Intersection", nodes |-> nodes]

\* Classes that define __and__ (openmc.Region and its subclasses); a Surface
\* defines only __neg__ and __pos__.
RegionClasses == {"Halfspace", "Intersection", "Union", "Complement"}

\* Python's a & b.
And(a, b, line) ==
    IF a.k \in RegionClasses /\ b.k \in RegionClasses
    THEN Return(Intersection(<<a, b>>))
    ELSE Raise("TypeError", line)

Cell(fill, region) == [k |-> "Cell", fill |-> fill, region |-> region]

\* openmc.Geometry(root): an iterable of cells becomes the root universe.
Geometry(cells) == [k |-> "Geometry", cells |-> cells]

\* Python's obj[i] (i >= 0): only list-like classes define __getitem__.
Subscript(obj, i, line) ==
    IF obj.k # "Materials" THEN Raise("TypeError", line)
    ELSE IF i + 1 > Len(obj.items) THEN Raise("IndexError", line)
    ELSE Return(obj.items[i + 1])

\* Points of space on the integer grid.
Points == (-(MaxR + 1)..(MaxR + 1)) \X (-(MaxR + 1)..(MaxR + 1)) \X (-(MaxR + 1)..(MaxR + 1))

Radius2(p) == p[1] * p[1] + p[2] * p[2] + p[3] * p[3]

\* Sphere.evaluate(point): x^2 + y^2 + z^2 - r^2.
Evaluate(surface, p) == Radius2(p) - ToInt(surface.r) * ToInt(surface.r)

\* point in region
RECURSIVE Contains(_, _)
Contains(region, p) ==
    IF region.k = "Halfspace"
    THEN IF region.side = "-" THEN Evaluate(region.surface, p) < 0
         ELSE Evaluate(region.surface, p) > 0
    ELSE \A i \in 1..Len(region.nodes) : Contains(region.nodes[i], p)

\* ------------------------------------------------------------ build_shell_model.py
create_materials(element, density) ==
    IF element.k # "str" THEN Raise("TypeError", 22)
    ELSE IF element.v \notin ElementSymbols THEN Raise("ValueError", 22)
    ELSE IF ~IsReal(density) THEN Raise("TypeError", 23)
    ELSE Return(Materials(<<Material("W_Shell", <<<<element.v, Num(1, 0)>>>>,
                                      "g/cm3", density)>>))

create_geometry(r_1, r_2, shell_mat) ==
    IF ~IsReal(r_1) THEN Raise("TypeError", 41)
    ELSE IF ~IsReal(r_2) THEN Raise("TypeError", 42)
    ELSE
    LET R_1 == Sphere(r_1, "transmission")
        R_2 == Sphere(r_2, "vacuum")
        Void == Cell(None, Halfspace(R_1, "-"))
        shell_region == And(R_1, Halfspace(R_2, "-"), 46)
    IN  IF ~shell_region.ok THEN shell_region
        ELSE Return(Geometry(<<Void, Cell(shell_mat, shell_region.val)>>))

\* openmc.stats.Point, openmc.stats.Discrete (scalars become 1-element arrays).
Point(xyz) == [k |-> "Point", xyz |-> xyz]
Discrete(x, p) == [k |-> "Discrete", x |-> <<x>>, p |-> <<p>>]

\* openmc.Source(space, angle, energy, ...): angle defaults to None.
Source(space, angle, energy, strength, particle) ==
    [k |-> "Source", space |-> space, angle |-> angle, energy |-> energy,
     strength |-> strength, particle |-> particle]

\* The angular distribution the engine samples: isotropic when none is given.
AngleOf(source) ==
    IF source.angle = None THEN [k |-> "Isotropic"] ELSE source.angle

\* Variant: the energy written as 14E+03.
source_14keV ==
    LET PointSource == Point(<<Num(0, 0), Num(0, 0), Num(0, 0)>>)
        Prob == Discrete(Num(14, 3), Num(1, 0))
    IN  Return(Source(PointSource, None, Prob, Num(1, 0), "neutron"))

create_isotropic_fusion_point_source ==
    LET PointSource == Point(<<Num(0, 0), Num(0, 0), Num(0, 0)>>)
        Prob == Discrete(Num(14, 6), Num(1, 0))
    IN  Return(Source(PointSource, None, Prob, Num(1, 0), "neutron"))

DefaultBatches == 10
DefaultParticles == 100000

\* Variant: the batches argument is dropped and the default always set.
setup_problem_ignores_batches(batches, particles_per_batch) ==
    IF particles_per_batch.k # "int" THEN Raise("TypeError", 84)
    ELSE IF particles_per_batch.v <= 0 THEN Raise("ValueError", 84)
    ELSE Return([k |-> "Settings", batches |-> DefaultBatches,
                 particles |-> particles_per_batch.v, run_mode |-> "fixed source"])

setup_problem(batches, particles_per_batch) ==
    IF batches.k # "int" THEN Raise("TypeError", 83)
    ELSE IF batches.v <= 0 THEN Raise("ValueError", 83)
    ELSE IF particles_per_batch.k # "int" THEN Raise("TypeError", 84)
    ELSE IF particles_per_batch.v <= 0 THEN Raise("ValueError", 84)
    ELSE Return([k |-> "Settings", batches |-> batches.v,
                 particles |-> particles_per_batch.v, run_mode |-> "fixed source"])

\* np.linspace(start, stop, num)[i] for endpoints whose difference is a
\* multiple of num - 1 (i from 0).
Linspace(start, stop, num, i) == start + i * ((stop - start) \div (num - 1))

\* np.logspace(start, stop, num): 10.0 ** np.linspace(start, stop, num).
Logspace(start, stop, num) ==
    [i \in 1..num |-> Power10(Linspace(ToInt(start), ToInt(stop), num, i - 1))]

CellFilter(cells) == [k |-> "CellFilter", bins |-> cells]

\* openmc.EnergyFilter(values): bins[i] = (values[i], values[i+1]).  The edges
\* may not decrease and may not be negative.
EnergyFilter(values) ==
    [k |-> "EnergyFilter", values |-> values,
     bins |-> [i \in 1..(Len(values) - 1) |-> <<values[i], values[i + 1]>>]]

EnergyFilterAccepts(values) ==
    \A i \in 1..(Len(values) - 1) : ~Lt(values[i + 1], values[i])

Tally(name, filters, scores) ==
    [k |-> "Tally", name |-> name, filters |-> filters, scores |-> scores]

Tallies(items) == [k |-> "Tallies", items |-> items]

e_min == Num(5, 2)
e_max == Num(14001, 3)
groups == 500

create_tallies(cell) ==
    IF cell.k \notin {"Cell", "int"} THEN Raise("TypeError", 104)
    ELSE
    LET cell_filter == CellFilter(<<cell>>)
        tally_energies == Logspace(e_min, e_max, groups + 1)
        energy_filter == EnergyFilter(tally_energies)
        neutron_tally == Tally("Total neutron tally", <<cell_filter>>,
                               <<"flux", "elastic", "absorption">>)
        spectrum_tally == Tally("Flux spectrum", <<energy_filter, cell_filter>>,
                                <<"flux">>)
    IN  IF ~EnergyFilterAccepts(tally_energies) THEN Raise("ValueError", 110)
        ELSE Return(Tallies(<<neutron_tally, spectrum_tally>>))

\* Public names of the argparse module.
ArgparseNames ==
    {"ArgumentParser", "ArgumentError", "ArgumentTypeError", "Action",
     "FileType", "HelpFormatter", "Namespace"}

Dests == {"element", "density", "inner_radius", "shell_thickness"}

Defaults ==
    [element |-> PyStr(<<"W">>), density |-> Num(1928, -2),
     inner_radius |-> PyInt(1000), shell_thickness |-> PyInt(5)]

\* The Namespace parse_args builds: no type= is given, so a value from the
\* command line stays a str.
Namespace(argv) ==
    [k |-> "Namespace",
     attrs |-> [d \in Dests |-> IF d \in DOMAIN argv THEN PyStr(argv[d])
                                ELSE Defaults[d]]]

\* Python's obj.name.
GetAttr(obj, name, line) ==
    IF name \in DOMAIN obj.attrs THEN Return(obj.attrs[name])
    ELSE Raise("AttributeError", line)

\* Python's a + b.
Add(a, b, line) ==
    IF a.k = "int" /\ b.k = "int" THEN Return(PyInt(a.v + b.v))
    ELSE IF a.k = "str" /\ b.k = "str" THEN Return(PyStr(a.v \o b.v))
    ELSE IF a.k = "float" /\ b.k = "float" /\ a.e = b.e
    THEN Return(Num(a.m + b.m, a.e))
    ELSE Raise("TypeError", line)

\* argv maps the options given on the command line to their strings.
parse_args(argv) ==
    IF "Parser" \notin ArgparseNames THEN Raise("AttributeError", 126)
    ELSE Return(Namespace(argv))

NoLocals ==
    [materials |-> None, geometry |-> None, source |-> None,
     tallies |-> None, settings |-> None]

\* build_shell_model left by an exception raised at r, with these locals bound.
Abort(r, locals) ==
    [ok |-> FALSE, exc |-> r.exc, line |-> r.line, locals |-> locals,
     exported |-> {}]

\* build_shell_model returning: nothing is exported, run or returned.
Finish(locals) ==
    [ok |-> TRUE, val |-> None, locals |-> locals, exported |-> {}]

build_shell_model(argv) ==
    LET args == parse_args(argv) IN
    IF ~args.ok THEN Abort(args, NoLocals) ELSE
    LET element == GetAttr(args.val, "element", 138) IN
    IF ~element.ok THEN Abort(element, NoLocals) ELSE
    LET density == GetAttr(args.val, "density", 138) IN
    IF ~density.ok THEN Abort(density, NoLocals) ELSE
    LET materials == create_materials(element.val, density.val) IN
    IF ~materials.ok THEN Abort(materials, NoLocals) ELSE
    LET L1 == [NoLocals EXCEPT !.materials = materials.val]
        inner_radius == GetAttr(args.val, "inner_radius", 139)
    IN
    IF ~inner_radius.ok THEN Abort(inner_radius, L1) ELSE
    LET thickness == GetAttr(args.val, "thickness", 139) IN
    IF ~thickness.ok THEN Abort(thickness, L1) ELSE
    LET outer_radius == Add(inner_radius.val, thickness.val, 139) IN
    IF ~outer_radius.ok THEN Abort(outer_radius, L1) ELSE
    LET shell_mat == Subscript(materials.val, 0, 139) IN
    IF ~shell_mat.ok THEN Abort(shell_mat, L1) ELSE
    LET geometry == create_geometry(inner_radius.val, outer_radius.val, shell_mat.val) IN
    IF ~geometry.ok THEN Abort(geometry, L1) ELSE
    LET L2 == [L1 EXCEPT !.geometry = geometry.val]
        source == create_isotropic_fusion_point_source
    IN
    IF ~source.ok THEN Abort(source, L2) ELSE
    LET L3 == [L2 EXCEPT !.source = source.val]
        cell == Subscript(geometry.val, 1, 141)
    IN
    IF ~cell.ok THEN Abort(cell, L3) ELSE
    LET tallies == create_tallies(cell.val) IN
    IF ~tallies.ok THEN Abort(tallies, L3) ELSE
    LET L4 == [L3 EXCEPT !.tallies = tallies.val]
        settings == setup_problem(PyInt(DefaultBatches), PyInt(DefaultParticles))
    IN
    IF ~settings.ok THEN Abort(settings, L4) ELSE
    Finish([L4 EXCEPT !.settings = settings.val])

\* ------------------------------------------------------------ the engine run
DigitChar(d) == <<"0", "1", "2", "3", "4", "5", "6", "7", "8", "9">>[d + 1]

\* str(n) for n >= 0, as its characters.
RECURSIVE DecStr(_)
DecStr(n) == IF n < 10 THEN <<DigitChar(n)>>
             ELSE DecStr(n \div 10) \o <<DigitChar(n % 10)>>

\* The engine writes statepoint.<batches>.h5 after the last batch.
StatepointName(batches) == <<"statepoint.">> \o DecStr(batches) \o <<".h5">>

NumBins(f) == Len(f.bins)

\* Stride of filter i in a tally's flattened results: the last filter varies
\* fastest.
RECURSIVE Stride(_, _)
Stride(filters, i) ==
    IF i >= Len(filters) THEN 1
    ELSE NumBins(filters[i + 1]) * Stride(filters, i + 1)

NumFilterBins(filters) ==
    IF Len(filters) = 0 THEN 1 ELSE NumBins(filters[1]) * Stride(filters, 1)

\* The estimate stored at 0-based position j of a tally's results: it is named
\* by the bin of each filter and the score it is an estimate of.
Estimate(tally, j) ==
    LET ns == Len(tally.scores)
        fb == j \div ns
    IN  [bins |-> [i \in 1..Len(tally.filters) |->
                     1 + ((fb \div Stride(tally.filters, i)) % NumBins(tally.filters[i]))],
         score |-> tally.scores[1 + (j % ns)]]

\* A tally as stored in a statepoint: its definition and its mean results.
ResultTally(tally) ==
    [k |-> "Tally", name |-> tally.name, filters |-> tally.filters,
     scores |-> tally.scores,
     mean |-> [j \in 1..(NumFilterBins(tally.filters) * Len(tally.scores)) |->
                 Estimate(tally, j - 1)]]

StatePoint(settings, tallies) ==
    [k |-> "StatePoint", n_batches |-> settings.batches,
     tallies |-> [i \in 1..Len(tallies.items) |-> ResultTally(tallies.items[i])]]

\* Every energy filter of the tallies has strictly increasing bin edges.
StrictlyIncreasingEdges(tallies) ==
    \A i \in 1..Len(tallies.items) :
        \A j \in 1..Len(tallies.items[i].filters) :
            LET f == tallies.items[i].filters[j] IN
            f.k = "EnergyFilter" =>
                \A n \in 1..(Len(f.values) - 1) : Lt(f.values[n], f.values[n + 1])

\* ------------------------------------------------------------ plot_shell_results.py
PlotterFile == <<"statepoint.", "1", "0", ".h5">>
PlotterTally == "Flux spectrum"
ImageFile == "neutron_flux_v_energy.png"

\* sp.get_tally(name=...): the tallies of the statepoint with that name.
Matching(statepoint, name) ==
    {i \in 1..Len(statepoint.tallies) : statepoint.tallies[i].name = name}

\* Variant: the upper edges, bins[:, 1], are taken.
ExtractEnergies_upper(tally) ==
    IF Len(tally.filters) = 0 THEN Raise("IndexError", 11)
    ELSE LET energy_filter == tally.filters[1] IN
         IF energy_filter.k # "EnergyFilter" THEN Raise("IndexError", 12)
         ELSE Return([i \in 1..NumBins(energy_filter) |-> energy_filter.bins[i][2]])

\* Lines 11-12: energy_filter = t.filters[0]; energy_filter.bins[:, 0].
\* A CellFilter's bins are one-dimensional.
ExtractEnergies(tally) ==
    IF Len(tally.filters) = 0 THEN Raise("IndexError", 11)
    ELSE LET energy_filter == tally.filters[1] IN
         IF energy_filter.k # "EnergyFilter" THEN Raise("IndexError", 12)
         ELSE Return([i \in 1..NumBins(energy_filter) |-> energy_filter.bins[i][1]])

\* Line 15: t.get_values(value='mean').ravel().
ExtractFlux(tally) == Return(tally.mean)

\* ------------------------------------------------------------ inputs
ElementInputs == {PyStr(<<"W">>), PyStr(<<"F", "e">>), PyStr(<<"X", "x">>)}
DensityInputs == {Num(1928, -2), PyInt(8), PyStr(<<"8">>)}
RadiusInputs == {PyInt(r) : r \in 1..MaxR} \cup {PyStr(<<"2">>)}
MaterialInputs ==
    {create_materials(PyStr(e), Num(1928, -2)).val.items[1] : e \in {<<"W">>, <<"F", "e">>}}

\* Cells of a shell geometry, void inside r_1 and material between r_1 and r_2.
VoidCell(r_1) == Cell(None, Halfspace(Sphere(PyInt(r_1), "transmission"), "-"))
ShellCell(r_1, r_2, mat) ==
    Cell(mat, Intersection(<<Halfspace(Sphere(PyInt(r_1), "transmission"), "+"),
                             Halfspace(Sphere(PyInt(r_2), "vacuum"), "-")>>))
CellInputs ==
    {VoidCell(r) : r \in 1..MaxR}
    \cup {ShellCell(r, r + 1, m) : r \in 1..MaxR, m \in MaterialInputs}
    \cup {None, PyInt(1)}

\* Command lines: each option absent or given with one of two strings.
OptionStrings ==
    [element |-> {<<"F", "e">>, <<"X", "x">>}, density |-> {<<"8">>, <<"1", "1">>},
     inner_radius |-> {<<"2">>, <<"1", "0">>}, shell_thickness |-> {<<"1">>, <<"3">>}]
ArgvInputs ==
    UNION {{a \in [D -> UNION {OptionStrings[d] : d \in Dests}] :
                \A d \in D : a[d] \in OptionStrings[d]} : D \in SUBSET Dests}

BatchInputs ==
    {PyInt(b) : b \in (DefaultBatches - BatchSpread)..(DefaultBatches + BatchSpread)}
ParticleInputs == {PyInt(DefaultParticles * n) : n \in 1..MaxParticles} \cup {PyInt(0)}

\* ------------------------------------------------------------ the builder module
Init ==
    /\ call = "import"
    /\ inp = <<>>
    /\ ret = Return(None)
    /\ fs = <<>>
    /\ run = None
    /\ nruns = 0
    /\ pc = "start"
    /\ sp = None
    /\ t = None
    /\ energies = None
    /\ flux = None
    /\ fig = None
    /\ written = {}
    /\ shown = FALSE
    /\ err = None
    /\ log = <<>>

CallCreateMaterials ==
    \E element \in ElementInputs, density \in DensityInputs :
        /\ call' = "create_materials"
        /\ inp' = <<element, density>>
        /\ ret' = create_materials(element, density)
        /\ UNCHANGED plotVars

CallCreateGeometry ==
    \E r_1 \in RadiusInputs, r_2 \in RadiusInputs, shell_mat \in MaterialInputs :
        /\ call' = "create_geometry"
        /\ inp' = <<r_1, r_2, shell_mat>>
        /\ ret' = create_geometry(r_1, r_2, shell_mat)
        /\ UNCHANGED plotVars

CallCreateSource ==
    /\ call' = "create_isotropic_fusion_point_source"
    /\ inp' = <<>>
    /\ ret' = create_isotropic_fusion_point_source
    /\ UNCHANGED plotVars

CallSetupProblem ==
    \E batches \in BatchInputs \cup {PyInt(0)}, particles \in ParticleInputs :
        /\ call' = "setup_problem"
        /\ inp' = <<batches, particles>>
        /\ ret' = setup_problem(batches, particles)
        /\ UNCHANGED plotVars

CallCreateTallies ==
    \E cell \in CellInputs :
        /\ call' = "create_tallies"
        /\ inp' = <<cell>>
        /\ ret' = create_tallies(cell)
        /\ UNCHANGED plotVars

CallParseArgs ==
    \E argv \in ArgvInputs :
        /\ call' = "parse_args"
        /\ inp' = <<argv>>
        /\ ret' = parse_args(argv)
        /\ UNCHANGED plotVars

\* python build_shell_model.py <argv>
RunBuildShellModel ==
    \E argv \in ArgvInputs :
        /\ call' = "build_shell_model"
        /\ inp' = <<argv>>
        /\ ret' = build_shell_model(argv)
        /\ UNCHANGED plotVars

Next ==
    \/ CallCreateMaterials
    \/ CallCreateGeometry
    \/ CallCreateSource
    \/ CallSetupProblem
    \/ CallCreateTallies
    \/ CallParseArgs
    \/ RunBuildShellModel

Spec == Init /\ [][Next]_vars

\* ------------------------------------------------------------ engine run and plotter
\* The tallies the builder module defines for a shell cell.
BuilderTallies == create_tallies(ShellCell(1, 2, CHOOSE m \in MaterialInputs : TRUE)).val

\* Tallies of other models the engine may have been run on in the same
\* directory, on an energy grid of g decades from 1 eV.
SmallGrid(g) == EnergyFilter(Logspace(PyInt(0), PyInt(g), g + 1))
OtherTallies ==
    {Tallies(<<BuilderTallies.items[1]>>)}
    \cup {Tallies(<<Tally(PlotterTally, <<SmallGrid(g), CellFilter(<<ShellCell(1, 2, None)>>)>>,
                          <<"flux">>)>>) : g \in 1..MaxGroups}
    \cup {Tallies(<<Tally(PlotterTally, <<CellFilter(<<ShellCell(1, 2, None)>>), SmallGrid(g)>>,
                          <<"flux">>)>>) : g \in 1..MaxGroups}
    \cup {Tallies(<<Tally(PlotterTally,
                          <<SmallGrid(g), CellFilter(<<VoidCell(1), ShellCell(1, 2, None)>>)>>,
                          <<"flux">>)>>) : g \in 1..MaxGroups}

\* A run of the engine, before the plotter is started, on settings from
\* setup_problem and on tallies.  It leaves statepoint.<batches>.h5, replacing
\* a file of that name.  Whether the engine runs a model whose energy bin edges
\* are not strictly increasing is the engine's affair: it may, or may reject it.
EngineRun ==
    \E batches \in BatchInputs, tallies \in {BuilderTallies} \cup OtherTallies,
       accepted \in BOOLEAN :
        LET settings == setup_problem(batches, PyInt(DefaultParticles))
            name == StatepointName(settings.val.batches)
        IN  /\ pc = "start"
            /\ nruns < MaxRuns
            /\ settings.ok
            /\ accepted \/ ~StrictlyIncreasingEdges(tallies)
            /\ nruns' = nruns + 1
            /\ run' = [batches |-> batches.v, accepted |-> accepted,
                       builder |-> (tallies = BuilderTallies)]
            /\ fs' = IF accepted
                     THEN [n \in DOMAIN fs \cup {name} |->
                             IF n = name THEN StatePoint(settings.val, tallies) ELSE fs[n]]
                     ELSE fs
            /\ UNCHANGED <<pc, sp, t, energies, flux, fig, written, shown, err, log>>
            /\ UNCHANGED builderVars

\* Line 7: openmc.StatePoint('statepoint.10.h5').
Open ==
    /\ pc = "start"
    /\ IF PlotterFile \in DOMAIN fs
       THEN /\ sp' = fs[PlotterFile]
            /\ pc' = "opened"
            /\ log' = Append(log, "open")
            /\ err' = err
       ELSE /\ err' = Raise("FileNotFoundError", 7)
            /\ pc' = "error"
            /\ UNCHANGED <<sp, log>>
    /\ UNCHANGED <<fs, run, nruns, t, energies, flux, fig, written, shown>>
    /\ UNCHANGED builderVars

\* Line 8 and the end of the with block, which closes the statepoint.
GetTally ==
    /\ pc = "opened"
    /\ LET found == Matching(sp, PlotterTally) IN
       IF found # {}
       THEN /\ t' = sp.tallies[CHOOSE i \in found : \A j \in found : i <= j]
            /\ pc' = "fetched"
            /\ log' = Append(log, "get_tally")
            /\ err' = err
       ELSE /\ err' = Raise("LookupError", 8)
            /\ pc' = "error"
            /\ UNCHANGED <<t, log>>
    /\ sp' = None
    /\ UNCHANGED <<fs, run, nruns, energies, flux, fig, written, shown>>
    /\ UNCHANGED builderVars

\* Lines 11-17: the rest of extract_flux_spectrum.
Extract ==
    /\ pc = "fetched"
    /\ LET e == ExtractEnergies(t)
           f == ExtractFlux(t)
       IN  IF ~e.ok
           THEN /\ err' = e
                /\ pc' = "error"
                /\ UNCHANGED <<energies, flux, log>>
           ELSE /\ energies' = e.val
                /\ flux' = f.val
                /\ pc' = "extracted"
                /\ log' = Append(log, "extract")
                /\ err' = err
    /\ UNCHANGED <<fs, run, nruns, sp, t, fig, written, shown>>
    /\ UNCHANGED builderVars

\* Lines 19-25 and 29: generate_plot.  loglog needs x and y of equal length.
GeneratePlot ==
    /\ pc = "extracted"
    /\ IF Len(energies) # Len(flux)
       THEN /\ err' = Raise("ValueError", 21)
            /\ pc' = "error"
            /\ UNCHANGED <<fig, log>>
       ELSE /\ fig' = [plot |-> "loglog", x |-> energies, y |-> flux,
                       drawstyle |-> "steps-post", xlabel |-> "Energy [eV]",
                       ylabel |-> "Flux [neutron-cm/source]", grid |-> "both"]
            /\ pc' = "plotted"
            /\ log' = Append(log, "plot")
            /\ err' = err
    /\ UNCHANGED <<fs, run, nruns, sp, t, energies, flux, written, shown>>
    /\ UNCHANGED builderVars

\* Variant: savefig is called before generate_plot.
SaveFig_before_plot ==
    /\ pc = "extracted"
    /\ written' = written \cup {ImageFile}
    /\ pc' = "saved"
    /\ log' = Append(log, "savefig")
    /\ UNCHANGED <<fs, run, nruns, sp, t, energies, flux, fig, shown, err>>
    /\ UNCHANGED builderVars

\* Line 30: plt.savefig('neutron_flux_v_energy.png').
SaveFig ==
    /\ pc = "plotted"
    /\ written' = written \cup {ImageFile}
    /\ pc' = "saved"
    /\ log' = Append(log, "savefig")
    /\ UNCHANGED <<fs, run, nruns, sp, t, energies, flux, fig, shown, err>>
    /\ UNCHANGED builderVars

\* Line 31: plt.show().
Show ==
    /\ pc = "saved"
    /\ shown' = TRUE
    /\ pc' = "done"
    /\ log' = Append(log, "show")
    /\ UNCHANGED <<fs, run, nruns, sp, t, energies, flux, fig, written, err>>
    /\ UNCHANGED builderVars

PlotNext ==
    \/ EngineRun
    \/ Open
    \/ GetTally
    \/ Extract
    \/ GeneratePlot
    \/ SaveFig
    \/ Show

PlotSpec == Init /\ [][PlotNext]_vars

\* ------------------------------------------------------------ claims
Assembled == {"materials", "geometry", "source", "tallies", "settings"}

\* C1: a run of build_shell_model, with or without command-line options, ends
\* without an error and with all five objects assembled.
C1_BuildCompletes ==
    call = "build_shell_model" =>
        /\ ret.ok
        /\ \A o \in Assembled : ret.locals[o] # None

\* C2: when build_shell_model finishes, each of the five assembled objects has
\* been handed to the engine (exported or returned).
C2_AllHandedOver ==
    call = "build_shell_model" => ret.exported = Assembled

Done(step) == \E i \in 1..Len(log) : log[i] = step

IsPrefix(a, b) == Len(a) <= Len(b) /\ \A i \in 1..Len(a) : a[i] = b[i]

\* C3: the plotter opens statepoint.10.h5, fetches 'Flux spectrum', extracts,
\* draws a log-log steps-post plot, saves the image, then shows it; the image
\* is written only after extraction and plotting and before the display, and
\* not at all when opening the file or fetching the tally fails.
C3_PlotOrder ==
    /\ IsPrefix(log, <<"open", "get_tally", "extract", "plot", "savefig", "show">>)
    /\ pc = "opened" => sp = fs[PlotterFile]
    /\ Done("get_tally") => t.name = "Flux spectrum"
    /\ Done("plot") =>
          /\ fig.plot = "loglog" /\ fig.drawstyle = "steps-post"
          /\ fig.x = energies /\ fig.y = flux
    /\ written # {} =>
          /\ written = {"neutron_flux_v_energy.png"}
          /\ Done("extract") /\ Done("plot")
    /\ shown => written # {}
    /\ pc = "saved" => ~shown
    /\ pc = "error" => written = {} /\ ~shown

C3_Witness == pc = "done" /\ shown /\ written = {ImageFile}

\* C4: for 0 < r_1 < r_2, create_geometry yields a void cell covering exactly
\* radius < r_1 and a shell cell filled with shell_mat covering exactly
\* r_1 < radius < r_2; only the outer sphere has the vacuum boundary.
C4_TwoCells ==
    (/\ call = "create_geometry"
     /\ inp[1].k = "int" /\ inp[2].k = "int"
     /\ inp[1].v < inp[2].v) =>
        /\ ret.ok
        /\ Len(ret.val.cells) = 2
        /\ LET Void == ret.val.cells[1]
               Shell == ret.val.cells[2]
               r1 == inp[1].v
               r2 == inp[2].v
           IN  /\ Void.fill = None
               /\ Shell.fill = inp[3]
               /\ \A p \in Points :
                     /\ Contains(Void.region, p) <=> Radius2(p) < r1 * r1
                     /\ Contains(Shell.region, p) <=>
                            (r1 * r1 < Radius2(p) /\ Radius2(p) < r2 * r2)
               /\ Void.region.surface.boundary_type # "vacuum"
               /\ Shell.region.nodes[2].surface.boundary_type = "vacuum"

\* C5: the source is a point source at the origin emitting only neutrons of
\* the single energy 14e6 eV with probability 1, of unit strength, isotropic.
C5_Source ==
    call = "create_isotropic_fusion_point_source" =>
        /\ ret.ok
        /\ ret.val.space.k = "Point"
        /\ \A i \in 1..3 : FloatEq(ret.val.space.xyz[i], Num(0, 0))
        /\ ret.val.particle = "neutron"
        /\ ret.val.energy.k = "Discrete"
        /\ Len(ret.val.energy.x) = 1 /\ Len(ret.val.energy.p) = 1
        /\ FloatEq(ret.val.energy.x[1], Num(14000000, 0))
        /\ FloatEq(ret.val.energy.p[1], Num(1, 0))
        /\ FloatEq(ret.val.strength, Num(1, 0))
        /\ AngleOf(ret.val).k = "Isotropic"

C5_Witness == call = "create_isotropic_fusion_point_source" /\ ret.ok

\* C6: create_tallies(cell) returns 'Total neutron tally' (flux, elastic,
\* absorption; the cell filter only) and 'Flux spectrum' (flux; energy filter
\* then cell filter), both on that cell, and build_shell_model passes the
\* material-filled shell cell.
C6_Tallies ==
    /\ (call = "create_tallies" /\ inp[1].k = "Cell") =>
          /\ ret.ok
          /\ Len(ret.val.items) = 2
          /\ ret.val.items[1] =
                Tally("Total neutron tally", <<CellFilter(<<inp[1]>>)>>,
                      <<"flux", "elastic", "absorption">>)
          /\ ret.val.items[2].name = "Flux spectrum"
          /\ ret.val.items[2].scores = <<"flux">>
          /\ Len(ret.val.items[2].filters) = 2
          /\ ret.val.items[2].filters[1].k = "EnergyFilter"
          /\ ret.val.items[2].filters[2] = CellFilter(<<inp[1]>>)
    /\ call = "build_shell_model" =>
          /\ ret.locals.tallies # None
          /\ ret.locals.geometry # None
          /\ ret.locals.tallies.items[1].filters[1].bins =
                <<ret.locals.geometry.cells[2]>>
          /\ ret.locals.geometry.cells[2].fill # None

C8_OuterRadius ==
    call = "build_shell_model" =>
        LET argv == inp[1]
            r == IF "inner_radius" \in DOMAIN argv THEN argv["inner_radius"]
                 ELSE DecStr(Defaults.inner_radius.v)
            th == IF "shell_thickness" \in DOMAIN argv THEN argv["shell_thickness"]
                  ELSE DecStr(Defaults.shell_thickness.v)
            g == ret.locals.geometry
        IN  /\ g # None
            /\ DecStr(ToInt(g.cells[1].region.surface.r)) = r
            /\ \E n \in 1..(2 * Defaults.inner_radius.v) :
                  /\ DecStr(n) = th
                  /\ ToInt(g.cells[2].region.nodes[2].surface.r)
                        = ToInt(g.cells[1].region.surface.r) + n

\* C9: the energy filter has groups + 1 = 501 finite, strictly increasing
\* edges from e_min = 5e2 eV to e_max = 14.001e6 eV, so the 14e6 eV source
\* energy lies inside the tallied range.
C9_EnergyGrid ==
    (call = "create_tallies" /\ ret.ok) =>
        LET v == ret.val.items[2].filters[1].values
            source_energy == create_isotropic_fusion_point_source.val.energy.x[1]
        IN  /\ Len(v) = 501
            /\ \A i \in 1..Len(v) : IsFinite(v[i])
            /\ \A i \in 1..(Len(v) - 1) : Lt(v[i], v[i + 1])
            /\ FloatEq(v[1], Num(500, 0))
            /\ FloatEq(v[Len(v)], Num(14001000, 0))
            /\ Lt(v[1], source_energy) /\ Lt(source_energy, v[Len(v)])

\* A tally shaped as create_tallies shapes 'Flux spectrum': an energy filter,
\* then a filter of one cell, and one score.
BuilderShaped(tally) ==
    /\ Len(tally.filters) = 2
    /\ tally.filters[1].k = "EnergyFilter"
    /\ tally.filters[2].k = "CellFilter"
    /\ NumBins(tally.filters[2]) = 1
    /\ Len(tally.scores) = 1

\* C10: for a tally shaped as create_tallies defines it, extract_flux_spectrum
\* returns energies and flux of equal length, energies[i] the lower edge of
\* energy bin i and flux[i] the mean flux of that bin.
C10_Extract ==
    /\ BuilderShaped(BuilderTallies.items[2])
    /\ BuilderTallies.items[2].name = PlotterTally
    /\ (Done("get_tally") /\ BuilderShaped(t)) =>
          /\ pc # "fetched" => Done("extract")
          /\ Done("extract") =>
                /\ Len(energies) = Len(flux)
                /\ Len(energies) = Len(t.filters[1].values) - 1
                /\ \A i \in 1..Len(energies) :
                      /\ energies[i] = t.filters[1].values[i]
                      /\ flux[i] = [bins |-> <<i, 1>>, score |-> "flux"]

C10_Witness ==
    /\ Done("extract")
    /\ run.builder
    /\ BuilderShaped(t)
    /\ Len(flux) = groups

====
